---------------------------- MODULE Spec2Model ----------------------------
(*
  A model of ViewController (src/morecpp/framework/viewController.cpp): the
  orthographic camera (processScroll, moveCamera, getCurrentZoomLevel) and the
  per-frame scene pass (render, renderRoadSegment, renderVehicle,
  renderJunction, renderTrafficLights).

  Numbers.  The program computes in float.  The model holds every length,
  coordinate, factor and colour channel as an integer count of 1/Scale
  (Scale = 1000, so the 0.001f threshold of renderRoadSegment is one unit) and
  divides by truncation.  The inputs are chosen so that the quantities the
  properties speak of are exact at this resolution.

  Draw commands.  Every glDrawArrays call of a frame is one record of the
  sequence `frame`, in emission order.  A record holds the transform as the
  code composes it (translate, rotate, translate, scale) and the colour, plus
  the place that emitted it: kind, the index of the road or junction in the
  list being walked, the lane boundary or light or vehicle index, the dash
  index.  The rotation is kept as the pair (z, x) handed to atan2.
*)
EXTENDS Integers, Sequences, FiniteSets

VARIABLES orthographicLeft, orthographicRight, orthographicBottom,
          orthographicTop, cameraPos, cameraTarget, simulationModel,
          frame, calls, last

vars == <<orthographicLeft, orthographicRight, orthographicBottom,
          orthographicTop, cameraPos, cameraTarget, simulationModel,
          frame, calls, last>>

---------------------------------------------------------------------------
(* Fixed-point arithmetic *)

Scale == 1000

MaxCalls == 4

Abs(x) == IF x < 0 THEN -x ELSE x

Max(a, b) == IF a >= b THEN a ELSE b

Min(a, b) == IF a <= b THEN a ELSE b

\* a / b for b > 0, truncated toward zero
TDiv(a, b) == IF a >= 0 THEN a \div b ELSE -((-a) \div b)

\* a * b of two fixed-point values: a * b / Scale, truncated toward zero,
\* computed without forming the full product
Mul(a, b) ==
    LET s == IF (a < 0) = (b < 0) THEN 1 ELSE -1
        q == Abs(a) \div Scale
        r == Abs(a) % Scale
    IN  s * (q * Abs(b) + (r * Abs(b)) \div Scale)

Vec3(x, y, z) == [x |-> x, y |-> y, z |-> z]

---------------------------------------------------------------------------
(* Camera *)

zoomSensitivity == 10

\* float zoomFactor = 1.0f + (-yOffset * zoomSensitivity / 100.0f), yOffset
\* in whole scroll units
ZoomFactor(yOffset) == Scale + TDiv((-yOffset) * zoomSensitivity * Scale, 100)

\* std::max(v, limit)
LimitLow(v, limit) == Max(v, limit)

LimitHigh_NoClamp(v, limit) == v

\* std::min(v, limit)
LimitHigh(v, limit) == Min(v, limit)

WorldX == 3200 * Scale

WorldZ == 1800 * Scale

Bounds(l, r, b, t) == [left |-> l, right |-> r, bottom |-> b, top |-> t]

CurrentBounds ==
    Bounds(orthographicLeft, orthographicRight, orthographicBottom,
           orthographicTop)

GetCurrentZoomLevel_By240(l, r) == TDiv(r - l, 240)

\* (orthographicRight - orthographicLeft) / 200.0f
GetCurrentZoomLevel(l, r) == TDiv(r - l, 200)

\* what the operation did, and the camera it found
Call(op, a, b) ==
    [op |-> op, a |-> a, b |-> b, pre |-> CurrentBounds, prePos |-> cameraPos]

ScrollDeltas == {-10, -1, 0, 1, 10, 20, 30}

PanDeltas == {<<Scale, 0>>, <<-(Scale \div 2), 2 * Scale>>, <<0, -Scale>>}

\* The orthographic bounds a constructed controller starts with (set in the
\* class declaration): a view of 240 x 135, and a view of half the world.
InitCameras ==
    { Bounds(-120 * Scale, 120 * Scale, -(135 * Scale) \div 2, (135 * Scale) \div 2),
      Bounds(-1600 * Scale, 1600 * Scale, -900 * Scale, 900 * Scale) }

NullModel == [null |-> TRUE]

processScroll(yOffset) ==
    /\ calls < MaxCalls
    /\ LET zoomFactor == ZoomFactor(yOffset)
       IN  /\ orthographicLeft' =
                 LimitLow(Mul(orthographicLeft, zoomFactor), -WorldX)
           /\ orthographicRight' =
                 LimitHigh(Mul(orthographicRight, zoomFactor), WorldX)
           /\ orthographicBottom' =
                 LimitLow(Mul(orthographicBottom, zoomFactor), -WorldZ)
           /\ orthographicTop' =
                 LimitHigh(Mul(orthographicTop, zoomFactor), WorldZ)
    /\ calls' = calls + 1
    /\ last' = Call("processScroll", yOffset, 0)
    /\ UNCHANGED <<cameraPos, cameraTarget, simulationModel, frame>>

moveCamera(deltaX, deltaY) ==
    /\ calls < MaxCalls
    /\ LET zoomLevel == GetCurrentZoomLevel(orthographicLeft, orthographicRight)
           pos == Vec3(cameraPos.x + Mul(deltaX, zoomLevel),
                       cameraPos.y,
                       cameraPos.z + Mul(deltaY, zoomLevel))
       IN  /\ cameraPos' = pos
           /\ cameraTarget' = Vec3(pos.x, 0, pos.z)
    /\ calls' = calls + 1
    /\ last' = Call("moveCamera", deltaX, deltaY)
    /\ UNCHANGED <<orthographicLeft, orthographicRight, orthographicBottom,
                   orthographicTop, simulationModel, frame>>

---------------------------------------------------------------------------
(* Vector3 *)

VAdd(a, b) == Vec3(a.x + b.x, a.y + b.y, a.z + b.z)

VSub(a, b) == Vec3(a.x - b.x, a.y - b.y, a.z - b.z)

\* v * s, s a fixed-point scalar
VScale(v, s) == Vec3(Mul(v.x, s), Mul(v.y, s), Mul(v.z, s))

RECURSIVE ISqrt(_)
\* floor of the square root
ISqrt(n) ==
    IF n < 2 THEN n
    ELSE LET s == 2 * ISqrt(n \div 4)
         IN  IF (s + 1) * (s + 1) > n THEN s ELSE s + 1

\* sqrt(x*x + y*y + z*z); a vector along one axis has the length of its one
\* component, which keeps the squares of long axis-aligned roads out of the
\* integer range
VLength(v) ==
    IF Cardinality({c \in {"x", "y", "z"} : v[c] # 0}) <= 1
    THEN Abs(v.x) + Abs(v.y) + Abs(v.z)
    ELSE ISqrt(v.x * v.x + v.y * v.y + v.z * v.z)

\* the unit vector of v; the zero vector for a v of length zero
VNormalized(v) ==
    LET len == VLength(v)
    IN  IF len = 0 THEN Vec3(0, 0, 0)
        ELSE Vec3(TDiv(v.x * Scale, len), TDiv(v.y * Scale, len),
                  TDiv(v.z * Scale, len))

---------------------------------------------------------------------------
(* Draw commands *)

RGB(r, g, b) == [r |-> r, g |-> g, b |-> b]

\* the arguments (z, x) of atan2: the rotation about the Y axis
Rotation(dir) == [z |-> dir.z, x |-> dir.x]

NoRotation == [z |-> 0, x |-> Scale]

Origin == Vec3(0, 0, 0)

DrawCommand(kind, owner, sub, k, translate, rot, local, scale, color) ==
    [kind |-> kind, owner |-> owner, sub |-> sub, k |-> k,
     translate |-> translate, rot |-> rot, local |-> local,
     scale |-> scale, color |-> color]

\* drawRectangle: translate, scale, colour, one draw call
drawRectangle(kind, owner, sub, position, scale, color) ==
    DrawCommand(kind, owner, sub, 0, position, NoRotation, Origin, scale, color)

RECURSIVE Concat(_)
Concat(ss) == IF Len(ss) = 0 THEN << >> ELSE Head(ss) \o Concat(Tail(ss))

---------------------------------------------------------------------------
(* Junctions and traffic lights *)

\* a null pointer: a record, as what a pointer may hold instead is one
NullRef == [null |-> TRUE]

GetConnectedRoads(junction) ==
    [n \in 1..Len(junction.lights) |-> junction.lights[n].road]

GetEntryPoint(junction, n) == junction.lights[n].entryPoint

GetLightState(junction, n) == junction.lights[n].state

LightColor_RedAsGreen(state) ==
    CASE state = "GREEN" -> RGB(0, Scale, 0)
      [] state = "YELLOW" -> RGB(Scale, Scale, 0)
      [] state = "RED" -> RGB(0, Scale, 0)

\* the switch on LightState
LightColor(state) ==
    CASE state = "GREEN" -> RGB(0, Scale, 0)
      [] state = "YELLOW" -> RGB(Scale, Scale, 0)
      [] state = "RED" -> RGB(Scale, 0, 0)

renderTrafficLights(junction, idx) ==
    [n \in 1..Len(GetConnectedRoads(junction)) |->
        LET entryPoint == GetEntryPoint(junction, n)
            state == GetLightState(junction, n)
            lightPos == Vec3(entryPoint.x, Scale \div 2, entryPoint.z)
            lightScale == Vec3(2 * Scale, 2 * Scale, 2 * Scale)
        IN  drawRectangle("light", idx, n, lightPos, lightScale,
                          LightColor(state))]

renderJunction(junction, idx) ==
    LET junctionPos == junction.position
        radius == junction.radius
        position == Vec3(junctionPos.x, Scale \div 100, junctionPos.z)
        scale == Vec3(radius * 2, Scale \div 2, radius * 2)
        color == IF junction.trafficLight
                 THEN RGB((5 * Scale) \div 10, (5 * Scale) \div 10, (6 * Scale) \div 10)
                 ELSE RGB((4 * Scale) \div 10, (4 * Scale) \div 10, (4 * Scale) \div 10)
    IN  << drawRectangle("junction", idx, 0, position, scale, color) >>
        \o (IF junction.trafficLight
            THEN renderTrafficLights(junction, idx) ELSE << >>)

---------------------------------------------------------------------------
(* Roads *)

\* road.getLanePositionAlongRoad(lane, distance)
GetLanePositionAlongRoad(road, lane, distance) ==
    road.lanePositions[<<lane, distance>>]

renderVehicle(vehicle, road, idx, n) ==
    LET vehiclePos == GetLanePositionAlongRoad(road, vehicle.lane,
                                               vehicle.distance)
        vehicleDim == vehicle.dimensions
        roadDir == road.direction
        vehColor == RGB((vehicle.color.r * Scale) \div 255,
                        (vehicle.color.g * Scale) \div 255,
                        (vehicle.color.b * Scale) \div 255)
    IN  DrawCommand("vehicle", idx, n, 0,
                    Vec3(vehiclePos.x, (2 * Scale) \div 100, vehiclePos.z),
                    Rotation(roadDir), Origin,
                    Vec3(vehicleDim.x, Scale, vehicleDim.z), vehColor)

\* roadDir of renderRoadSegment
RoadDir(road) ==
    VNormalized(VSub(road.endJunction.position, road.startJunction.position))

\* both ends are moved by the start junction's radius
AdjustedStartPos(road) ==
    VAdd(road.startJunction.position,
         VScale(RoadDir(road), road.startJunction.radius))

AdjustedEndPos(road) ==
    VSub(road.endJunction.position,
         VScale(RoadDir(road), road.startJunction.radius))

AdjustedLength(road) == VLength(VSub(AdjustedEndPos(road), AdjustedStartPos(road)))

HasJunctions(road) ==
    road.startJunction # NullRef /\ road.endJunction # NullRef

IsDegenerate_OnlyNegative(adjustedLength) == adjustedLength < 0

\* adjustedLength <= 0.001f
IsDegenerate(adjustedLength) == adjustedLength <= Scale \div 1000

dashLength == 3 * Scale

gapLength == 7 * Scale

spacing == dashLength + gapLength

DashCount_NoExtra(adjustedLength) == TDiv(adjustedLength, spacing)

\* static_cast<int>(adjustedLength / spacing) + 1
DashCount(adjustedLength) == TDiv(adjustedLength, spacing) + 1

DashOffset_FromEdge(adjustedLength, dashIdx) ==
    TDiv(-adjustedLength, 2) + dashIdx * spacing

\* -adjustedLength / 2 + dashIdx * spacing + dashLength / 2
DashOffset(adjustedLength, dashIdx) ==
    TDiv(-adjustedLength, 2) + dashIdx * spacing + TDiv(dashLength, 2)

IsShoulderBoundary_Same(lanes, i) == lanes[i] = lanes[i + 1]

\* lanes[i - 1].getType() != lanes[i].getType(), lanes counted from 1 here
IsShoulderBoundary(lanes, i) == lanes[i] # lanes[i + 1]

RoadCommands_VehiclesFirst(body, markings, vehicles) ==
    body \o vehicles \o markings

\* the order of the three parts of renderRoadSegment
RoadCommands(body, markings, vehicles) == body \o markings \o vehicles

renderRoadSegment(road, idx) ==
    IF ~HasJunctions(road) THEN << >>
    ELSE
    LET zoomFactor == TDiv(orthographicRight - orthographicLeft, 240)
        minLineThickness == Mul((2 * Scale) \div 10, zoomFactor)
        minLineWidth == Mul((5 * Scale) \div 10, zoomFactor)
        roadDir == RoadDir(road)
        adjustedStartPos == AdjustedStartPos(road)
        adjustedEndPos == AdjustedEndPos(road)
        adjustedLength == AdjustedLength(road)
        roadCenter == Vec3(TDiv(adjustedStartPos.x + adjustedEndPos.x, 2),
                           Scale \div 100,
                           TDiv(adjustedStartPos.z + adjustedEndPos.z, 2))
        roadWidth == road.dimensions.z
        angle == Rotation(roadDir)
        white == RGB(Scale, Scale, Scale)
        body == DrawCommand("road", idx, 0, 0, roadCenter, angle, Origin,
                            Vec3(adjustedLength, Scale, roadWidth),
                            RGB((3 * Scale) \div 10, (3 * Scale) \div 10,
                                (3 * Scale) \div 10))
        lanes == road.lanes
        laneCount == Len(road.lanes)
        laneWidth == TDiv(roadWidth, laneCount)
        lanePosition(i) == TDiv(-roadWidth, 2) + i * laneWidth
        solid(i) ==
            << DrawCommand("solid", idx, i, 0, roadCenter, angle,
                           Vec3(0, (5 * Scale) \div 100, lanePosition(i)),
                           Vec3(adjustedLength,
                                Max((2 * Scale) \div 10, minLineThickness),
                                Max((2 * Scale) \div 10, minLineWidth)),
                           white) >>
        dashed(i) ==
            [d \in 1..DashCount(adjustedLength) |->
                DrawCommand("dash", idx, i, d - 1, roadCenter, angle,
                            Vec3(DashOffset(adjustedLength, d - 1),
                                 (5 * Scale) \div 100, lanePosition(i)),
                            Vec3(dashLength,
                                 Max(Scale \div 10, minLineThickness),
                                 Max((5 * Scale) \div 10, minLineWidth)),
                            white)]
        markings ==
            Concat([i \in 1..(laneCount - 1) |->
                      IF IsShoulderBoundary(lanes, i) THEN solid(i)
                      ELSE dashed(i)])
        vehicles ==
            Concat([n \in 1..Len(road.vehicles) |->
                      IF road.vehicles[n] # NullRef
                      THEN << renderVehicle(road.vehicles[n], road, idx, n) >>
                      ELSE << >>])
    IN  IF IsDegenerate(adjustedLength) THEN << >>
        ELSE RoadCommands(<< body >>, markings, vehicles)

RenderFrame_JunctionsFirst(model) ==
    Concat([j \in 1..Len(model.junctions) |->
              renderJunction(model.junctions[j], j)])
    \o Concat([r \in 1..Len(model.roads) |->
              renderRoadSegment(model.roads[r], r)])

\* the two loops of render: all road segments, then all junctions
RenderFrame(model) ==
    Concat([r \in 1..Len(model.roads) |->
              renderRoadSegment(model.roads[r], r)])
    \o Concat([j \in 1..Len(model.junctions) |->
              renderJunction(model.junctions[j], j)])

render ==
    /\ frame' = IF simulationModel = NullModel THEN frame
                ELSE RenderFrame(simulationModel)
    /\ last' = Call("render", 0, 0)
    /\ UNCHANGED <<orthographicLeft, orthographicRight, orthographicBottom,
                   orthographicTop, cameraPos, cameraTarget, simulationModel,
                   calls>>

---------------------------------------------------------------------------
(* The simulation models a frame is rendered from *)

MaxRoads == 2

MaxJunctions == 2

PlainJunction(x, z, radius) ==
    [position |-> Vec3(x, 0, z), radius |-> radius, trafficLight |-> FALSE,
     lights |-> << >>]

TrafficLightJunction(x, z, radius, lights) ==
    [position |-> Vec3(x, 0, z), radius |-> radius, trafficLight |-> TRUE,
     lights |-> lights]

Light(road, x, z, state) ==
    [road |-> road, entryPoint |-> Vec3(x, 0, z), state |-> state]

Vehicle(lane, distance, length, width, r, g, b) ==
    [lane |-> lane, distance |-> distance,
     dimensions |-> Vec3(length, Scale, width),
     color |-> [r |-> r, g |-> g, b |-> b]]

CarA == Vehicle(0, 50 * Scale, 4 * Scale, 2 * Scale, 255, 0, 0)

CarB == Vehicle(1, 10 * Scale, 5 * Scale, 2 * Scale, 0, 128, 255)

\* what getLanePositionAlongRoad answers for the two vehicles
LanePositions ==
    [p \in {<<0, 50 * Scale>>, <<1, 10 * Scale>>} |->
        IF p[1] = 0 THEN Vec3(12 * Scale, 0, 34 * Scale)
        ELSE Vec3(3 * Scale, 0, -2 * Scale)]

Road(name, startJunction, endJunction, width, lanes, vehicles) ==
    [name |-> name, startJunction |-> startJunction,
     endJunction |-> endJunction,
     dimensions |-> Vec3(0, 0, width), lanes |-> lanes,
     vehicles |-> vehicles, lanePositions |-> LanePositions,
     direction |-> IF startJunction = NullRef \/ endJunction = NullRef
                   THEN Vec3(Scale, 0, 0)
                   ELSE VNormalized(VSub(endJunction.position,
                                         startJunction.position))]

RoadPool ==
    { \* no start junction
      Road("noStart", NullRef, PlainJunction(10 * Scale, 0, 2 * Scale),
           6 * Scale, <<"car", "car">>, <<CarA>>),
      \* no end junction
      Road("noEnd", PlainJunction(0, 0, 2 * Scale), NullRef,
           6 * Scale, <<"car", "bike">>, <<CarB>>),
      \* both junctions at one position
      Road("samePos", PlainJunction(5 * Scale, 5 * Scale, 2 * Scale),
           PlainJunction(5 * Scale, 5 * Scale, 2 * Scale),
           6 * Scale, <<"car", "bike">>, <<CarA>>),
      \* adjusted length 0.001
      Road("tiny", PlainJunction(0, 0, 2 * Scale),
           PlainJunction(4 * Scale + 1, 0, 2 * Scale),
           6 * Scale, <<"car", "car">>, <<CarA>>),
      \* adjusted length 0.002
      Road("short", PlainJunction(0, 0, 2 * Scale),
           PlainJunction(4 * Scale + 2, 0, 2 * Scale),
           6 * Scale, <<"car", "car">>, << >>),
      \* adjusted length 103
      Road("long", PlainJunction(0, 0, 2 * Scale),
           PlainJunction(107 * Scale, 0, 3 * Scale),
           9 * Scale, <<"car", "car", "bike">>, <<CarA, NullRef, CarB>>),
      \* a 3-4-5 diagonal, adjusted length 16
      Road("diagonal", PlainJunction(0, 0, 2 * Scale),
           PlainJunction(12 * Scale, 16 * Scale, 2 * Scale),
           9 * Scale, <<"bike", "car", "car">>, <<CarB>>) }

JunctionPool ==
    { PlainJunction(0, 0, 2 * Scale),
      TrafficLightJunction(107 * Scale, 0, 3 * Scale,
          << Light("long", 104 * Scale, 0, "RED") >>),
      TrafficLightJunction(12 * Scale, 16 * Scale, 2 * Scale,
          << Light("diagonal", 11 * Scale, 15 * Scale, "GREEN"),
             Light("short", 12 * Scale, 14 * Scale, "YELLOW"),
             Light("long", 13 * Scale, 16 * Scale, "RED") >>) }

SeqsUpTo(S, n) == UNION { [1..k -> S] : k \in 0..n }

Models ==
    [roads : SeqsUpTo(RoadPool, MaxRoads),
     junctions : SeqsUpTo(JunctionPool, MaxJunctions)]

\* The application attaches the model once, before its frame loop.
setSimulationModel(model) ==
    /\ simulationModel = NullModel
    /\ simulationModel' = model
    /\ last' = Call("setSimulationModel", 0, 0)
    /\ UNCHANGED <<orthographicLeft, orthographicRight, orthographicBottom,
                   orthographicTop, cameraPos, cameraTarget, frame, calls>>

Init ==
    /\ \E c \in InitCameras :
          /\ orthographicLeft = c.left
          /\ orthographicRight = c.right
          /\ orthographicBottom = c.bottom
          /\ orthographicTop = c.top
          /\ last = [op |-> "ViewController", a |-> 0, b |-> 0, pre |-> c,
                     prePos |-> Vec3(0, 100 * Scale, 0)]
    /\ cameraPos = Vec3(0, 100 * Scale, 0)
    /\ cameraTarget = Vec3(0, 0, 0)
    /\ simulationModel = NullModel
    /\ frame = << >>
    /\ calls = 0

Next ==
    \/ \E yOffset \in ScrollDeltas : processScroll(yOffset)
    \/ \E d \in PanDeltas : moveCamera(d[1], d[2])

Spec == Init /\ [][Next]_vars

NextRender ==
    \/ \E model \in Models : setSimulationModel(model)
    \/ render

SpecRender == Init /\ [][NextRender]_vars

---------------------------------------------------------------------------
(* Properties of the camera, under Spec *)

Pinned == Bounds(-WorldX, WorldX, -WorldZ, WorldZ)

\* C1: after any sequence of processScroll calls the bounds satisfy
\* left < right and bottom < top and all four lie within the world extent
\* (left, right in [-3200, 3200], bottom, top in [-1800, 1800]).
C1_BoundsStayValid ==
    /\ orthographicLeft < orthographicRight
    /\ orthographicBottom < orthographicTop
    /\ -WorldX <= orthographicLeft /\ orthographicLeft <= WorldX
    /\ -WorldX <= orthographicRight /\ orthographicRight <= WorldX
    /\ -WorldZ <= orthographicBottom /\ orthographicBottom <= WorldZ
    /\ -WorldZ <= orthographicTop /\ orthographicTop <= WorldZ

\* C9: a processScroll with a delta <= 0 on a camera whose four bounds are
\* pinned at the limits leaves the four bounds as they were.
C9_PinnedZoomOutChangesNothing ==
    (last.op = "processScroll" /\ last.a <= 0 /\ last.pre = Pinned)
        => CurrentBounds = Pinned

C9_Witness ==
    /\ last.op = "processScroll" /\ last.a < 0 /\ last.pre = Pinned
    /\ calls >= 2

\* C10: moveCamera leaves the four bounds (so the zoom level, (right - left)
\* / 200) as they were, moves the position by (deltaX, deltaY) times the zoom
\* level in x and z, keeps its height, and puts the target under it at y = 0.
C10_PanFrame ==
    last.op = "moveCamera" =>
        LET zoomLevel == TDiv(last.pre.right - last.pre.left, 200)
        IN  /\ CurrentBounds = last.pre
            /\ TDiv(orthographicRight - orthographicLeft, 200) = zoomLevel
            /\ cameraPos.x = last.prePos.x + Mul(last.a, zoomLevel)
            /\ cameraPos.z = last.prePos.z + Mul(last.b, zoomLevel)
            /\ cameraPos.y = last.prePos.y
            /\ cameraTarget = Vec3(cameraPos.x, 0, cameraPos.z)

C10_Witness ==
    /\ last.op = "moveCamera" /\ last.a # 0 /\ last.b # 0
    /\ last.pre \notin InitCameras
    /\ cameraPos.x # last.prePos.x /\ cameraPos.z # last.prePos.z

---------------------------------------------------------------------------
(* Properties of one frame, under SpecRender *)

Rendered == simulationModel # NullModel /\ last.op = "render"

RoadKinds == {"road", "solid", "dash", "vehicle"}

JunctionKinds == {"junction", "light"}

\* the positions in the frame of the commands of these kinds of this owner
At(kinds, owner) ==
    {p \in 1..Len(frame) : frame[p].kind \in kinds /\ frame[p].owner = owner}

\* the commands of this kind of this owner and lane boundary, in frame order
Of(kind, owner, sub) ==
    SelectSeq(frame, LAMBDA c : c.kind = kind /\ c.owner = owner /\ c.sub = sub)

AllBefore(A, B) == \A p \in A : \A q \in B : p < q

Drawn(road) ==
    HasJunctions(road) /\ AdjustedLength(road) > Scale \div 1000

Rank(kind) ==
    CASE kind = "road" -> 1
      [] kind \in {"solid", "dash"} -> 2
      [] kind = "vehicle" -> 3
      [] kind = "junction" -> 4
      [] kind = "light" -> 5

GlobalPhaseOrder ==
    \A p \in 1..(Len(frame) - 1) :
        Rank(frame[p].kind) <= Rank(frame[p + 1].kind)

Key(c) ==
    IF c.kind \in RoadKinds THEN <<1, c.owner, Rank(c.kind)>>
    ELSE <<2, c.owner, Rank(c.kind)>>

LexLeq(a, b) ==
    \/ a[1] < b[1]
    \/ a[1] = b[1] /\ a[2] < b[2]
    \/ a[1] = b[1] /\ a[2] = b[2] /\ a[3] <= b[3]

C3_OrderWithinOwners ==
    Rendered =>
        /\ \A r \in 1..Len(simulationModel.roads) :
              /\ AllBefore(At({"road"}, r), At({"solid", "dash"}, r))
              /\ AllBefore(At({"road"}, r), At({"vehicle"}, r))
              /\ AllBefore(At({"solid", "dash"}, r), At({"vehicle"}, r))
        /\ \A j \in 1..Len(simulationModel.junctions) :
              AllBefore(At({"junction"}, j), At({"light"}, j))
        /\ \A p \in 1..(Len(frame) - 1) :
              \* once a junction command, junction commands to the end
              frame[p].kind \in JunctionKinds
                  => frame[p + 1].kind \in JunctionKinds

C3_Witness ==
    /\ Rendered
    /\ \E r \in 1..Len(simulationModel.roads) :
          /\ At({"road"}, r) # {} /\ At({"solid"}, r) # {}
          /\ At({"dash"}, r) # {} /\ Cardinality(At({"vehicle"}, r)) >= 2
    /\ \E j \in 1..Len(simulationModel.junctions) :
          Cardinality(At({"light"}, j)) >= 2

\* C4: a road without a start or an end junction, or of adjusted length <=
\* 0.001 (as when both junctions are at one position), puts no command in the
\* frame, and the frame still holds the body of every other road and of every
\* junction.
C4_SkippedRoadDrawsNothing ==
    Rendered =>
        /\ \A r \in 1..Len(simulationModel.roads) :
              LET road == simulationModel.roads[r]
              IN  /\ (road.startJunction = NullRef \/ road.endJunction = NullRef)
                        => At(RoadKinds, r) = {}
                  /\ (HasJunctions(road)
                        /\ road.startJunction.position = road.endJunction.position)
                        => At(RoadKinds, r) = {}
                  /\ (HasJunctions(road)
                        /\ AdjustedLength(road) <= Scale \div 1000)
                        => At(RoadKinds, r) = {}
                  /\ Drawn(road) => Cardinality(At({"road"}, r)) = 1
        /\ \A j \in 1..Len(simulationModel.junctions) :
              Cardinality(At({"junction"}, j)) = 1

C4_Witness ==
    /\ Rendered
    /\ Len(simulationModel.roads) = 2
    /\ HasJunctions(simulationModel.roads[1])
    /\ AdjustedLength(simulationModel.roads[1]) = Scale \div 1000
    /\ Len(simulationModel.roads[1].vehicles) > 0
    /\ At(RoadKinds, 1) = {}
    /\ At({"road"}, 2) # {}
    /\ At({"junction"}, 1) # {}

\* the lane boundaries of a road that are drawn dashed
DashedBoundaries(road) ==
    {i \in 1..(Len(road.lanes) - 1) : road.lanes[i] = road.lanes[i + 1]}

DashStart(c) == c.local.x - c.scale.x \div 2

DashEnd(c) == c.local.x + c.scale.x \div 2

\* C5 as stated: on every dashed boundary the dash offsets are mirror
\* symmetric about 0 and no dash reaches beyond [-L/2, L/2].
C5_DashesSymmetricAndInside ==
    Rendered =>
        \A r \in 1..Len(simulationModel.roads) :
            LET road == simulationModel.roads[r]
            IN  Drawn(road) =>
                \A i \in DashedBoundaries(road) :
                    LET L == AdjustedLength(road)
                        ds == Of("dash", r, i)
                    IN  /\ {ds[n].local.x : n \in 1..Len(ds)}
                              = {-ds[n].local.x : n \in 1..Len(ds)}
                        /\ \A n \in 1..Len(ds) :
                              /\ DashStart(ds[n]) >= -(L \div 2)
                              /\ DashEnd(ds[n]) <= L \div 2

\* C5, amended: on every dashed boundary the dashes are laid from the near
\* end: the first starts at -L/2, each next one period (10) further, every
\* dash starts inside [-L/2, L/2] and none ends more than one dash length (3)
\* beyond L/2.  No dash reaches beyond L/2 exactly when L mod 10 >= 3, and
\* the offsets are mirror symmetric about 0 exactly when L mod 10 = 3 (as
\* for L = 103).
C5_DashesFromNearEnd ==
    Rendered =>
        \A r \in 1..Len(simulationModel.roads) :
            LET road == simulationModel.roads[r]
            IN  Drawn(road) =>
                \A i \in DashedBoundaries(road) :
                    LET L == AdjustedLength(road)
                        ds == Of("dash", r, i)
                    IN  /\ Len(ds) >= 1
                        /\ DashStart(ds[1]) = -(L \div 2)
                        /\ \A n \in 1..(Len(ds) - 1) :
                              ds[n + 1].local.x = ds[n].local.x + 10 * Scale
                        /\ \A n \in 1..Len(ds) :
                              /\ DashStart(ds[n]) >= -(L \div 2)
                              /\ DashStart(ds[n]) <= L \div 2
                              /\ DashEnd(ds[n]) <= L \div 2 + 3 * Scale
                        /\ DashStart(ds[Len(ds)]) + 10 * Scale > L \div 2
                        /\ (\A n \in 1..Len(ds) : DashEnd(ds[n]) <= L \div 2)
                              <=> (L % (10 * Scale) >= 3 * Scale)
                        /\ ({ds[n].local.x : n \in 1..Len(ds)}
                              = {-ds[n].local.x : n \in 1..Len(ds)})
                              <=> (L % (10 * Scale) = 3 * Scale)

C5_Witness ==
    /\ Rendered
    /\ \E r \in 1..Len(simulationModel.roads) :
          /\ Drawn(simulationModel.roads[r])
          /\ \E p \in At({"dash"}, r) :
                DashEnd(frame[p])
                    > AdjustedLength(simulationModel.roads[r]) \div 2
    /\ \E r \in 1..Len(simulationModel.roads) :
          /\ Drawn(simulationModel.roads[r])
          /\ AdjustedLength(simulationModel.roads[r]) = 103 * Scale
          /\ At({"dash"}, r) # {}

\* C6: a dashed boundary of a drawn road of adjusted length L has exactly
\* floor(L / 10) + 1 dashes, in increasing k from 0, dash k at longitudinal
\* offset -L/2 + 10 k + 1.5 and of length 3; for L = 103 that is 11 dashes,
\* the first at -50 and the last at 50.
C6_DashCountAndOffsets ==
    Rendered =>
        \A r \in 1..Len(simulationModel.roads) :
            LET road == simulationModel.roads[r]
            IN  Drawn(road) =>
                \A i \in DashedBoundaries(road) :
                    LET L == AdjustedLength(road)
                        ds == Of("dash", r, i)
                    IN  /\ Len(ds) = L \div (10 * Scale) + 1
                        /\ \A n \in 1..Len(ds) :
                              /\ ds[n].k = n - 1
                              /\ ds[n].local.x =
                                    -(L \div 2) + 10 * Scale * (n - 1)
                                        + (3 * Scale) \div 2
                              /\ ds[n].scale.x = 3 * Scale
                        /\ L = 103 * Scale =>
                              /\ Len(ds) = 11
                              /\ ds[1].local.x = -50 * Scale
                              /\ ds[11].local.x = 50 * Scale

C6_Witness ==
    /\ Rendered
    /\ \E r \in 1..Len(simulationModel.roads) :
          /\ Drawn(simulationModel.roads[r])
          /\ AdjustedLength(simulationModel.roads[r]) = 103 * Scale
          /\ Cardinality(At({"dash"}, r)) = 11

\* C7: a drawn road of laneCount lanes has markings for exactly the
\* boundaries 1 .. laneCount - 1, in increasing order of boundary; boundary i
\* is one full-length solid command when the lane types on its two sides
\* differ and dashes when they are equal; lanes car, car, bike give boundary
\* 1 dashed and boundary 2 solid.
C7_SolidIffTypesDiffer ==
    Rendered =>
        \A r \in 1..Len(simulationModel.roads) :
            LET road == simulationModel.roads[r]
                lanes == road.lanes
                marks == SelectSeq(frame,
                            LAMBDA c : c.kind \in {"solid", "dash"}
                                       /\ c.owner = r)
            IN  Drawn(road) =>
                /\ \A n \in 1..Len(marks) :
                      marks[n].sub \in 1..(Len(lanes) - 1)
                /\ \A n \in 1..(Len(marks) - 1) :
                      marks[n].sub <= marks[n + 1].sub
                /\ \A i \in 1..(Len(lanes) - 1) :
                      IF lanes[i] # lanes[i + 1]
                      THEN /\ Len(Of("solid", r, i)) = 1
                           /\ Of("solid", r, i)[1].scale.x = AdjustedLength(road)
                           /\ Len(Of("dash", r, i)) = 0
                      ELSE /\ Len(Of("solid", r, i)) = 0
                           /\ Len(Of("dash", r, i)) >= 1
                /\ lanes = <<"car", "car", "bike">> =>
                      /\ Len(Of("dash", r, 1)) >= 1 /\ Len(Of("solid", r, 1)) = 0
                      /\ Len(Of("solid", r, 2)) = 1 /\ Len(Of("dash", r, 2)) = 0

C7_Witness ==
    /\ Rendered
    /\ \E r \in 1..Len(simulationModel.roads) :
          /\ Drawn(simulationModel.roads[r])
          /\ simulationModel.roads[r].lanes = <<"car", "car", "bike">>
          /\ Len(Of("dash", r, 1)) > 1
          /\ Len(Of("solid", r, 2)) = 1

ColorOfState(state) ==
    IF state = "GREEN" THEN RGB(0, Scale, 0)
    ELSE IF state = "YELLOW" THEN RGB(Scale, Scale, 0)
    ELSE RGB(Scale, 0, 0)

\* C8: a traffic-light junction with n connected roads gives one junction
\* body followed by n light markers, the m-th at the x and z of the m-th
\* connected road's entry point and in the colour of its light state; a
\* plain junction gives one body and no marker.
C8_LightsFollowJunctionBody ==
    Rendered =>
        \A j \in 1..Len(simulationModel.junctions) :
            LET junction == simulationModel.junctions[j]
                n == Len(junction.lights)
            IN  /\ Cardinality(At({"junction"}, j)) = 1
                /\ IF junction.trafficLight
                   THEN /\ Cardinality(At({"light"}, j)) = n
                        /\ \A p \in At({"junction"}, j) : \A m \in 1..n :
                              /\ p + m <= Len(frame)
                              /\ frame[p + m].kind = "light"
                              /\ frame[p + m].owner = j
                              /\ frame[p + m].translate.x
                                    = junction.lights[m].entryPoint.x
                              /\ frame[p + m].translate.z
                                    = junction.lights[m].entryPoint.z
                              /\ frame[p + m].color
                                    = ColorOfState(junction.lights[m].state)
                   ELSE At({"light"}, j) = {}

C8_Witness ==
    /\ Rendered
    /\ \E j \in 1..Len(simulationModel.junctions) :
          /\ simulationModel.junctions[j].trafficLight
          /\ Len(simulationModel.junctions[j].lights) = 1
          /\ simulationModel.junctions[j].lights[1].state = "RED"
          /\ \E p \in At({"light"}, j) : frame[p].color = RGB(Scale, 0, 0)
    /\ \E j \in 1..Len(simulationModel.junctions) :
          ~simulationModel.junctions[j].trafficLight

===========================================================================
